---------------------------- MODULE Spec2Model ----------------------------
(***************************************************************************)
(* Model of main.py (image-encryptor): key derivation from a password,     *)
(* the XOR transform, the seeded permutation and its inverse, and the      *)
(* process() pipeline run as two successive invocations (the second reads  *)
(* the file the first wrote).                                              *)
(*                                                                         *)
(* Conventions.                                                            *)
(*  - A buffer is the flattened uint8 array (arr.reshape(-1), row-major);  *)
(*    reshape(arr.shape) restores the layout without moving a byte, so the *)
(*    flat sequence is the whole content.  Sequences are 1-based, the      *)
(*    index VALUES held in perm and inv are 0-based as in the code.        *)
(*  - A Python int wider than TLC's integers (the 64-bit seed) is        *)
(*    a little-endian sequence of base-256 limbs: limb k weighs 256^(k-1). *)
(*  - hashlib.sha256 is a table of the real digests of the passwords the   *)
(*    model uses.  numpy's bit generator (PCG64 behind default_rng) is a   *)
(*    small linear congruential generator seeded from the limbs; numpy's   *)
(*    Generator.permutation is arange(n) followed by its Fisher-Yates      *)
(*    shuffle (i from n-1 down to 1, j drawn in 0..i, swap).               *)
(*  - Image.open / Image.save are a lossless read and write of the buffer. *)
(***************************************************************************)
EXTENDS Integers, Sequences, FiniteSets

VARIABLES
    fs,        \* path -> buffer stored there, or NoFile
    run,       \* number of process() invocations started (0, 1, 2)
    args,      \* arguments of the current invocation
    pc,        \* position of the current invocation inside process()
    arr,       \* local arr of process()
    key_byte,  \* local key_byte of process()
    seed,      \* local seed of process()
    perm,      \* perm computed by the apply_shuffle call of this invocation
    steps,     \* transforms applied so far by this invocation, in order
    prev,      \* locals of the first invocation as it ended
    t          \* the transform harness: one call sequence on chosen inputs

vars == <<fs, run, args, pc, arr, key_byte, seed, perm, steps, prev, t>>

pvars == <<fs, run, args, pc, arr, key_byte, seed, perm, steps, prev>>

---------------------------------------------------------------------------
(* Bounds *)

MaxLen == 4

MaxImageLen == 3

ByteSamples == {0, 90, 255}

ByteBits == 8

Radix == 256

SeedBytes == 8

Buffers == UNION {[1..n -> ByteSamples] : n \in 0..MaxLen}

Images == UNION {[1..n -> ByteSamples] : n \in 0..MaxImageLen}

Passwords == {"", "abc", "myPassword"}

Modes == {"xor", "shuffle", "both", "none"}

Actions == {"encrypt", "decrypt", "verify"}

NoFile == <<-2>>

IndexError == <<-1>>

NoPerm == <<-3>>

---------------------------------------------------------------------------
(* Key material helpers *)

\* hashlib.sha256(password.encode("utf-8")).digest(): the 32 digest bytes.
sha256_digest(password) ==
    CASE password = "" ->
           <<227, 176, 196, 66, 152, 252, 28, 20, 154, 251, 244, 200, 153, 111,
             185, 36, 39, 174, 65, 228, 100, 155, 147, 76, 164, 149, 153, 27,
             120, 82, 184, 85>>
      [] password = "abc" ->
           <<186, 120, 22, 191, 143, 1, 207, 234, 65, 65, 64, 222, 93, 174,
             34, 35, 176, 3, 97, 163, 150, 23, 122, 156, 180, 16, 255, 97,
             242, 0, 21, 173>>
      [] password = "myPassword" ->
           <<118, 84, 155, 130, 126, 196, 110, 112, 95, 208, 56, 49, 129, 63,
             165, 33, 114, 51, 143, 13, 252, 189, 113, 30, 212, 75, 129, 169,
             109, 172, 81, 198>>

\* int.from_bytes(bs, "big", signed=False): the first byte is the most
\* significant, so it becomes the last (heaviest) limb.
from_bytes_big(bs) == [k \in 1..Len(bs) |-> bs[Len(bs) + 1 - k]]

from_bytes_little(bs) == bs

\* derive_key_byte: h[0]
derive_key_byte(password) == sha256_digest(password)[1]

\* derive_seed: int.from_bytes(h[:8], "big", signed=False)
derive_seed_little(password) ==
    from_bytes_little(SubSeq(sha256_digest(password), 1, SeedBytes))

\* a seed that depends on the invocation (as Python's salted hash() would)
derive_seed_salted(password) ==
    LET s == from_bytes_big(SubSeq(sha256_digest(password), 1, SeedBytes))
    IN  [k \in 1..Len(s) |-> IF k = 1 THEN (s[k] + run) % Radix ELSE s[k]]

derive_seed(password) ==
    from_bytes_big(SubSeq(sha256_digest(password), 1, SeedBytes))

---------------------------------------------------------------------------
(* Arithmetic on bytes *)

RECURSIVE XorBits(_, _, _)
\* a ^ b on w-bit operands
XorBits(a, b, w) ==
    IF w = 0 THEN 0
    ELSE (((a % 2) + (b % 2)) % 2) + 2 * XorBits(a \div 2, b \div 2, w - 1)

\* np.uint8(x)
uint8(x) == x % Radix

---------------------------------------------------------------------------
(* Core transforms *)

\* a repeating multi-byte key: position i uses key_byte + i
xor_transform_positional(a, k) ==
    [i \in 1..Len(a) |-> XorBits(a[i], uint8(k + i - 1), ByteBits)]

\* xor_transform: arr ^ np.uint8(key_byte)
xor_transform(a, k) ==
    [i \in 1..Len(a) |-> XorBits(a[i], uint8(k), ByteBits)]

\* np.random.default_rng(seed): the generator state made from the seed
RngModulus == 65536

RngMultiplier == 25173

RngIncrement == 13849

SeedMix == 257

RECURSIVE default_rng(_)
default_rng(s) ==
    IF Len(s) = 0 THEN 1
    ELSE ((default_rng(Tail(s)) * SeedMix) + s[1]) % RngModulus

rng_next(state) == ((RngMultiplier * state) + RngIncrement) % RngModulus

\* a draw in 0..hi from the generator state (the high bits of the state)
rng_bounded(state, hi) == (state \div Radix) % (hi + 1)

arange(n) == [i \in 1..n |-> i - 1]

swap(a, i, j) ==
    [k \in 1..Len(a) |-> IF k = i THEN a[j] ELSE IF k = j THEN a[i] ELSE a[k]]

RECURSIVE rng_shuffle(_, _, _)
\* Generator.shuffle: for i in reversed(range(1, n)): j in 0..i; swap(i, j)
rng_shuffle(a, i, state) ==
    IF i < 1 THEN a
    ELSE LET s1 == rng_next(state)
             j  == rng_bounded(s1, i)
         IN  rng_shuffle(swap(a, i + 1, j + 1), i - 1, s1)

\* n independent draws in 0..n-1 (rng.integers(0, n, n)): not a permutation
RECURSIVE rng_integers(_, _, _)
rng_integers(n, i, state) ==
    IF i = 0 THEN <<>>
    ELSE LET s1 == rng_next(state)
         IN  <<rng_bounded(s1, n - 1)>> \o rng_integers(n, i - 1, s1)

permutation_for_length_draws(n, s) == rng_integers(n, n, default_rng(s))

\* permutation_for_length: default_rng(seed).permutation(n)
permutation_for_length(n, s) == rng_shuffle(arange(n), n - 1, default_rng(s))

\* flat[idx] (integer-array indexing): IndexError when an index is out of range
take(flat, idx) ==
    IF \E i \in 1..Len(idx) : idx[i] < 0 \/ idx[i] >= Len(flat)
    THEN IndexError
    ELSE [i \in 1..Len(idx) |-> flat[idx[i] + 1]]

\* what np.empty_like may hold: n slots of arbitrary content
JunkArrays(n) == [1..n -> {0, n}]

\* the gather arange(n)[perm] in place of the scatter inv[perm] = arange(n)
inverse_of_gather(p, junk) == take(arange(Len(p)), p)

\* inv = np.empty_like(perm); inv[perm] = np.arange(perm.size)
\* (junk is the content empty_like came with; a later write to a slot wins)
inverse_of(p, junk) ==
    [k \in 1..Len(p) |->
        IF \E i \in 1..Len(p) : p[i] = k - 1
        THEN (CHOOSE i \in 1..Len(p) :
                 p[i] = k - 1 /\ \A i2 \in 1..Len(p) : p[i2] = k - 1 => i2 <= i) - 1
        ELSE junk[k]]

\* the decrypt branch gathering with perm itself instead of its inverse
apply_shuffle_no_inverse(a, s, encrypt, junk) ==
    take(a, permutation_for_length(Len(a), s))

\* apply_shuffle
apply_shuffle(a, s, encrypt, junk) ==
    LET p == permutation_for_length(Len(a), s)
    IN  IF encrypt THEN take(a, p)
        ELSE take(a, inverse_of(p, junk))


---------------------------------------------------------------------------
(* Pipeline: process(in_path, out_path, password, mode, action) *)

Paths == {"in", "enc", "dec"}

NoArgs == [in_path |-> "in", out_path |-> "in", password |-> "", mode |-> "none",
           action |-> "verify"]

NoPrev == [args |-> NoArgs, pc |-> "none", key_byte |-> 0, seed |-> <<>>,
           perm |-> NoPerm, n |-> 0]

Idle == [pc |-> "idle", op |-> "none", input |-> <<>>, key |-> 0, seed |-> <<>>,
         mid |-> <<>>, out |-> <<>>, perm |-> NoPerm, inv |-> NoPerm]

\* the state before the first invocation: an image at "in", nothing else
Init ==
    /\ \E img \in Images : fs = [p \in Paths |-> IF p = "in" THEN img ELSE NoFile]
    /\ run = 0
    /\ args = NoArgs
    /\ pc = "idle"
    /\ arr = <<>>
    /\ key_byte = 0
    /\ seed = <<>>
    /\ perm = NoPerm
    /\ steps = <<>>
    /\ prev = NoPrev
    /\ t = Idle

\* main(): one invocation of process.  The second invocation starts once the
\* first has ended after writing its output, and reads that output.
Invoke ==
    /\ \/ run = 0 /\ pc = "idle"
       \/ run = 1 /\ pc = "done"
    /\ \E pw \in Passwords, m \in Modes, a \in Actions :
          args' = [in_path  |-> IF run = 0 THEN "in" ELSE "enc",
                   out_path |-> IF run = 0 THEN "enc" ELSE "dec",
                   password |-> pw, mode |-> m, action |-> a]
    /\ prev' = IF run = 0 THEN NoPrev
               ELSE [args |-> args, pc |-> pc, key_byte |-> key_byte,
                     seed |-> seed, perm |-> perm, n |-> Len(arr)]
    /\ run' = run + 1
    /\ pc' = "load"
    /\ arr' = <<>>
    /\ key_byte' = 0
    /\ seed' = <<>>
    /\ perm' = NoPerm
    /\ steps' = <<>>
    /\ UNCHANGED <<fs, t>>

\* arr, img_mode = load_image_as_array(in_path)
Load ==
    /\ pc = "load"
    /\ arr' = fs[args.in_path]
    /\ pc' = "derive"
    /\ UNCHANGED <<fs, run, args, key_byte, seed, perm, steps, prev, t>>

\* key_byte = derive_key_byte(password); seed = derive_seed(password)
DeriveKeys ==
    /\ pc = "derive"
    /\ key_byte' = derive_key_byte(args.password)
    /\ seed' = derive_seed(args.password)
    /\ pc' = "check_mode"
    /\ UNCHANGED <<fs, run, args, arr, perm, steps, prev, t>>

\* if mode not in {"xor", "shuffle", "both"}: raise ValueError
CheckModeAlways ==
    /\ pc = "check_mode"
    /\ pc' = "check_action"
    /\ UNCHANGED <<fs, run, args, arr, key_byte, seed, perm, steps, prev, t>>

CheckMode ==
    /\ pc = "check_mode"
    /\ pc' = IF args.mode \notin {"xor", "shuffle", "both"} THEN "error"
             ELSE "check_action"
    /\ UNCHANGED <<fs, run, args, arr, key_byte, seed, perm, steps, prev, t>>

\* if action not in {"encrypt", "decrypt"}: raise ValueError;
\* then the branch  if action == "encrypt": ... else: ...
CheckAction ==
    /\ pc = "check_action"
    /\ pc' = IF args.action \notin {"encrypt", "decrypt"} THEN "error"
             ELSE IF args.action = "encrypt" THEN "enc_xor"
             ELSE "dec_shuffle"
    /\ UNCHANGED <<fs, run, args, arr, key_byte, seed, perm, steps, prev, t>>

\* the statement  arr = xor_transform(arr, key_byte)  followed by a jump
XorStep(next) ==
    /\ arr' = xor_transform(arr, key_byte)
    /\ steps' = Append(steps, "xor")
    /\ pc' = next
    /\ UNCHANGED <<fs, run, args, key_byte, seed, perm, prev, t>>

\* the statement  arr = apply_shuffle(arr, seed, encrypt=e)  followed by a jump
ShuffleStep(e, next) ==
    /\ \E junk \in JunkArrays(Len(arr)) :
          LET out == apply_shuffle(arr, seed, e, junk)
          IN  /\ arr' = out
              /\ pc' = IF out = IndexError THEN "error" ELSE next
    /\ perm' = permutation_for_length(Len(arr), seed)
    /\ steps' = Append(steps, IF e THEN "shuffle" ELSE "unshuffle")
    /\ UNCHANGED <<fs, run, args, key_byte, seed, prev, t>>

Skip(next) ==
    /\ pc' = next
    /\ UNCHANGED <<fs, run, args, arr, key_byte, seed, perm, steps, prev, t>>

\* encrypt: if mode in {"xor", "both"}: arr = xor_transform(arr, key_byte)
EncryptXor ==
    /\ pc = "enc_xor"
    /\ IF args.mode \in {"xor", "both"} THEN XorStep("enc_shuffle")
       ELSE Skip("enc_shuffle")

\* encrypt: if mode in {"shuffle", "both"}: arr = apply_shuffle(arr, seed, True)
EncryptShuffle ==
    /\ pc = "enc_shuffle"
    /\ IF args.mode \in {"shuffle", "both"} THEN ShuffleStep(TRUE, "save")
       ELSE Skip("save")

\* the decrypt branch shuffling whatever the mode
DecryptShuffleUnguarded ==
    /\ pc = "dec_shuffle"
    /\ ShuffleStep(FALSE, "dec_xor")

\* decrypt: if mode in {"shuffle", "both"}: arr = apply_shuffle(arr, seed, False)
DecryptShuffle ==
    /\ pc = "dec_shuffle"
    /\ IF args.mode \in {"shuffle", "both"} THEN ShuffleStep(FALSE, "dec_xor")
       ELSE Skip("dec_xor")

\* decrypt: if mode in {"xor", "both"}: arr = xor_transform(arr, key_byte)
DecryptXor ==
    /\ pc = "dec_xor"
    /\ IF args.mode \in {"xor", "both"} THEN XorStep("save")
       ELSE Skip("save")

\* save_array_as_image(arr, img_mode, out_path)
Save ==
    /\ pc = "save"
    /\ fs' = [fs EXCEPT ![args.out_path] = arr]
    /\ pc' = "done"
    /\ UNCHANGED <<run, args, arr, key_byte, seed, perm, steps, prev, t>>

Next ==
    \/ Invoke
    \/ Load
    \/ DeriveKeys
    \/ CheckMode
    \/ CheckAction
    \/ EncryptXor
    \/ EncryptShuffle
    \/ DecryptShuffle
    \/ DecryptXor
    \/ Save

Spec == Init /\ [][Next]_vars

---------------------------------------------------------------------------
(* Transform harness: the pure functions applied to chosen inputs *)

ZeroSeed == [k \in 1..SeedBytes |-> 0]

MaxSeed == [k \in 1..SeedBytes |-> Radix - 1]

Seeds == {derive_seed(pw) : pw \in Passwords} \cup {ZeroSeed, MaxSeed}

KeyBytes == 0..(Radix - 1)

NoFiles == [p \in Paths |-> NoFile]

TInit ==
    /\ fs = NoFiles
    /\ run = 0
    /\ args = NoArgs
    /\ pc = "idle"
    /\ arr = <<>>
    /\ key_byte = 0
    /\ seed = <<>>
    /\ perm = NoPerm
    /\ steps = <<>>
    /\ prev = NoPrev
    /\ \E b \in Buffers : t = [Idle EXCEPT !.pc = "input", !.input = b]

\* mid = xor_transform(input, k)
TXor ==
    /\ t.pc = "input"
    /\ \E k \in KeyBytes :
          t' = [t EXCEPT !.pc = "once", !.op = "xor", !.key = k,
                         !.mid = xor_transform(t.input, k)]
    /\ UNCHANGED pvars

\* out = xor_transform(mid, k)
TXorAgain ==
    /\ t.pc = "once"
    /\ t.op = "xor"
    /\ t' = [t EXCEPT !.pc = "twice", !.out = xor_transform(t.mid, t.key)]
    /\ UNCHANGED pvars

\* mid = apply_shuffle(input, s, encrypt=True)
TShuffle ==
    /\ t.pc = "input"
    /\ \E s \in Seeds, junk \in JunkArrays(Len(t.input)) :
          t' = [t EXCEPT !.pc = "once", !.op = "shuffle", !.seed = s,
                         !.perm = permutation_for_length(Len(t.input), s),
                         !.mid = apply_shuffle(t.input, s, TRUE, junk)]
    /\ UNCHANGED pvars

\* out = apply_shuffle(mid, s, encrypt=False)
TUnshuffle ==
    /\ t.pc = "once"
    /\ t.op = "shuffle"
    /\ \E junk \in JunkArrays(Len(t.mid)) :
          t' = [t EXCEPT !.pc = "twice",
                         !.inv = inverse_of(permutation_for_length(Len(t.mid), t.seed), junk),
                         !.out = apply_shuffle(t.mid, t.seed, FALSE, junk)]
    /\ UNCHANGED pvars

\* the encrypt branch of process in mode "both": XOR, then forward shuffle
TEncryptBoth ==
    /\ t.pc = "input"
    /\ \E pw \in Passwords, junk \in JunkArrays(Len(t.input)) :
          LET k == derive_key_byte(pw)
              s == derive_seed(pw)
          IN  t' = [t EXCEPT !.pc = "once", !.op = "both", !.key = k, !.seed = s,
                             !.mid = apply_shuffle(xor_transform(t.input, k), s, TRUE, junk)]
    /\ UNCHANGED pvars

\* the same two transforms undone in the encrypt order: XOR, then inverse shuffle
TUndoXorFirst ==
    /\ t.pc = "once"
    /\ t.op = "both"
    /\ \E junk \in JunkArrays(Len(t.mid)) :
          t' = [t EXCEPT !.pc = "twice",
                         !.out = apply_shuffle(xor_transform(t.mid, t.key), t.seed, FALSE, junk)]
    /\ UNCHANGED pvars

TNext ==
    \/ TXor
    \/ TXorAgain
    \/ TShuffle
    \/ TUnshuffle
    \/ TEncryptBoth
    \/ TUndoXorFirst

TransformSpec == TInit /\ [][TNext]_vars

---------------------------------------------------------------------------
(* Properties *)

ValidModes == {"xor", "shuffle", "both"}

ValidActions == {"encrypt", "decrypt"}

RECURSIVE Pow2(_)
Pow2(j) == IF j = 0 THEN 1 ELSE 2 * Pow2(j - 1)

Bit(x, j) == (x \div Pow2(j)) % 2

\* x // Radix^k
FloorDivRadixPow(x, k) == SubSeq(x, k + 1, Len(x))

RECURSIVE LimbValue(_)
\* the value of a limb integer (used only on integers of at most 3 limbs)
LimbValue(x) ==
    IF Len(x) = 0 THEN 0 ELSE x[1] + Radix * LimbValue(Tail(x))

\* p holds each value of 0..n-1 exactly once
IsPermutationOf(p, n) ==
    /\ Len(p) = n
    /\ \A v \in 0..(n - 1) : Cardinality({i \in 1..n : p[i] = v}) = 1

\* the second invocation decrypts what the first encrypted, same password and mode
RoundTripRun ==
    /\ run = 2
    /\ prev.pc = "done"
    /\ prev.args.action = "encrypt"
    /\ args.action = "decrypt"
    /\ args.password = prev.args.password
    /\ args.mode = prev.args.mode
    /\ args.mode \in ValidModes

\* C1: encrypt then decrypt with the same password and the same mode writes a
\* buffer equal to the original, byte for byte and of the same length, for
\* every buffer (lengths 0 and 1 included), password and mode.
C1_RoundTrip ==
    (RoundTripRun /\ pc = "done") =>
        /\ fs["dec"] = fs["in"]
        /\ Len(fs["dec"]) = Len(fs["in"])

C1_Witness ==
    /\ RoundTripRun
    /\ pc = "done"
    /\ args.mode = "both"
    /\ Len(fs["in"]) = MaxImageLen
    /\ fs["enc"] # fs["in"]
    /\ perm # arange(MaxImageLen)
    /\ fs["dec"] = fs["in"]

\* C2: the order of the transform steps depends on the direction: encrypt
\* applies XOR before the forward shuffle, decrypt applies the inverse shuffle
\* before XOR; a selected transform is applied exactly once and a transform
\* the mode does not select is never applied.
C2_StepOrder ==
    /\ \A i, j \in 1..Len(steps) : (i # j) => (steps[i] # steps[j])
    /\ \A i \in 1..Len(steps) :
          /\ steps[i] = "xor" => args.mode \in {"xor", "both"}
          /\ steps[i] = "shuffle" =>
                (args.mode \in {"shuffle", "both"} /\ args.action = "encrypt")
          /\ steps[i] = "unshuffle" =>
                (args.mode \in {"shuffle", "both"} /\ args.action = "decrypt")
    /\ \A i, j \in 1..Len(steps) :
          /\ (steps[i] = "xor" /\ steps[j] = "shuffle") => i < j
          /\ (steps[i] = "unshuffle" /\ steps[j] = "xor") => i < j
    /\ pc \in {"save", "done"} =>
          /\ (args.mode \in {"xor", "both"}) <=> (\E i \in 1..Len(steps) : steps[i] = "xor")
          /\ (args.mode \in {"shuffle", "both"} /\ args.action = "encrypt")
                <=> (\E i \in 1..Len(steps) : steps[i] = "shuffle")
          /\ (args.mode \in {"shuffle", "both"} /\ args.action = "decrypt")
                <=> (\E i \in 1..Len(steps) : steps[i] = "unshuffle")

C2_Witness ==
    /\ pc = "done"
    /\ args.action = "decrypt"
    /\ args.mode = "both"
    /\ steps = <<"unshuffle", "xor">>
    /\ prev.pc = "done"
    /\ prev.args.action = "encrypt"
    /\ prev.args.mode = "both"

\* C3: with a mode outside {xor, shuffle, both} or an action outside
\* {encrypt, decrypt} process ends in the error before any XOR or shuffle
\* step, without writing output, the loaded buffer unchanged.
C3_FailFast ==
    /\ pc = "error" =>
          /\ args.mode \notin ValidModes \/ args.action \notin ValidActions
          /\ steps = <<>>
          /\ arr = fs[args.in_path]
          /\ fs[args.out_path] = NoFile
    /\ (run > 0 /\ (args.mode \notin ValidModes \/ args.action \notin ValidActions)) =>
          /\ pc \in {"load", "derive", "check_mode", "check_action", "error"}
          /\ steps = <<>>
          /\ fs[args.out_path] = NoFile

C3_Witness ==
    /\ pc = "error"
    /\ run = 2
    /\ args.mode = "none"
    /\ args.action = "encrypt"
    /\ Len(arr) = MaxImageLen

\* C4: the inverse shuffle applied to the forward shuffle (same seed) returns
\* the original buffer; forward is out[i] = flat[perm[i]], inverse is
\* out[i] = flat[inv[i]], perm recomputed from (length, seed).
C4_ShuffleRoundTrip ==
    (t.op = "shuffle" /\ t.pc \in {"once", "twice"}) =>
        /\ Len(t.mid) = Len(t.input)
        /\ \A i \in 1..Len(t.input) : t.mid[i] = t.input[t.perm[i] + 1]
        /\ t.pc = "twice" =>
              /\ t.out = t.input
              /\ \A i \in 1..Len(t.mid) : t.out[i] = t.mid[t.inv[i] + 1]

C4_Witness ==
    /\ t.op = "shuffle"
    /\ t.pc = "twice"
    /\ Len(t.input) = MaxLen
    /\ t.mid # t.input
    /\ t.inv # t.perm
    /\ t.out = t.input

\* C5: xor_transform returns a buffer of the same length whose byte at every
\* index is the input byte XOR the key byte, within 0..255, and applying it
\* twice with the same key byte returns the original buffer.
C5_Xor ==
    (t.op = "xor" /\ t.pc \in {"once", "twice"}) =>
        /\ Len(t.mid) = Len(t.input)
        /\ \A i \in 1..Len(t.input) :
              /\ t.mid[i] \in 0..255
              /\ \A j \in 0..7 :
                    Bit(t.mid[i], j) = (IF Bit(t.input[i], j) = Bit(t.key, j) THEN 0 ELSE 1)
        /\ t.pc = "twice" => t.out = t.input

C5_Witness ==
    /\ t.op = "xor"
    /\ t.pc = "twice"
    /\ t.key = 255
    /\ Len(t.input) = MaxLen
    /\ t.mid # t.input
    /\ t.out = t.input

\* C6: permutation_for_length(n, seed) has length n and holds each value of
\* 0..n-1 exactly once; it is empty for n = 0 and [0] for n = 1.
C6_Bijection ==
    (t.op = "shuffle") =>
        /\ IsPermutationOf(t.perm, Len(t.input))
        /\ Len(t.input) = 0 => t.perm = <<>>
        /\ Len(t.input) = 1 => t.perm = <<0>>

C6_Witness ==
    /\ t.op = "shuffle"
    /\ Len(t.input) = MaxLen
    /\ t.perm # arange(MaxLen)
    /\ IsPermutationOf(t.perm, MaxLen)

C8_Inverse ==
    (t.op = "shuffle" /\ t.pc = "twice") =>
        /\ IsPermutationOf(t.inv, Len(t.perm))
        /\ \A i \in 1..Len(t.perm) : t.inv[t.perm[i] + 1] = i - 1
        /\ \A i \in 1..Len(t.perm) : t.perm[t.inv[i] + 1] = i - 1

C8_Witness ==
    /\ t.op = "shuffle"
    /\ t.pc = "twice"
    /\ Len(t.perm) = MaxLen
    /\ t.inv # t.perm
    /\ \A i \in 1..MaxLen : t.inv[t.perm[i] + 1] = i - 1

\* C9 as stated: undoing XOR-then-shuffle in the fixed order XOR, inverse
\* shuffle breaks the round trip: among the inputs the harness draws from,
\* some buffer and password are not restored.
C9_Original ==
    (t.pc = "input") =>
        \E b \in Buffers, pw \in Passwords :
            LET k == derive_key_byte(pw)
                s == derive_seed(pw)
                junk == [i \in 1..Len(b) |-> 0]
                enc == apply_shuffle(xor_transform(b, k), s, TRUE, junk)
            IN  apply_shuffle(xor_transform(enc, k), s, FALSE, junk) # b

\* C9 amended: XOR uses one key byte at every position, so it commutes with
\* the shuffle: undoing XOR-then-shuffle in the fixed order XOR, inverse
\* shuffle also restores the original, for every buffer and password.
C9_FixedOrderRestores ==
    (t.op = "both" /\ t.pc = "twice") => t.out = t.input

C9_Witness ==
    /\ t.op = "both"
    /\ t.pc = "twice"
    /\ Len(t.input) = MaxLen
    /\ \E i, j \in 1..MaxLen : t.input[i] # t.input[j]
    /\ t.seed = derive_seed("abc")
    /\ xor_transform(t.mid, t.key) # t.input
    /\ t.out = t.input

\* C10: the derived key byte is the most significant byte of the derived
\* 64-bit seed (key_byte = seed div 2^56), the seed within 0..2^64-1 and the
\* key byte within 0..255.
C10_KeyIsSeedTopByte ==
    (run > 0 /\ pc \notin {"load", "derive"}) =>
        /\ key_byte \in 0..255
        /\ Len(seed) = 8
        /\ \A k \in 1..Len(seed) : seed[k] \in 0..255
        /\ LimbValue(FloorDivRadixPow(seed, 7)) = key_byte

C10_Witness ==
    /\ run > 0
    /\ pc = "done"
    /\ args.password = "abc"
    /\ key_byte = 186
    /\ seed = <<234, 207, 1, 143, 191, 22, 120, 186>>

===========================================================================
